---- MODULE Spec2Model ----
(***************************************************************************)
(* harn: a test harness that runs a target program on every input file     *)
(* matched by a glob pattern and compares (or generates) the expected      *)
(* output, src/main.go.  One run of main() is modelled step by step; the   *)
(* child process, the deadline timer of context.WithTimeout and the        *)
(* goroutine of exec.CommandContext that kills the child are separate      *)
(* actions interleaved with the steps of executeProgram.  Runs follow one  *)
(* another on the same file system.                                        *)
(***************************************************************************)
EXTENDS Integers, Sequences, FiniteSets, TLC

(***************************************************************************)
(* Text.  A string is a sequence of one-character strings.                 *)
(***************************************************************************)
SP == " "
NL == "\n"
CR == "\r"
TAB == "\t"

\* unicode.IsSpace restricted to the characters of the model's alphabet.
IsSpace(c) == c \in {SP, NL, CR, TAB}

RECURSIVE TrimLeft(_)
TrimLeft(s) ==
    IF s # <<>> /\ IsSpace(Head(s)) THEN TrimLeft(Tail(s)) ELSE s

RECURSIVE TrimRight(_)
TrimRight(s) ==
    IF s # <<>> /\ IsSpace(s[Len(s)])
    THEN TrimRight(SubSeq(s, 1, Len(s) - 1))
    ELSE s

\* strings.TrimSpace: all leading and trailing white space removed.
TrimSpace(s) == TrimRight(TrimLeft(s))

\* strings.HasSuffix
HasSuffix(s, suffix) ==
    /\ Len(s) >= Len(suffix)
    /\ SubSeq(s, Len(s) - Len(suffix) + 1, Len(s)) = suffix

\* strings.TrimSuffix: one trailing occurrence of suffix removed, if present.
TrimSuffix(s, suffix) ==
    IF HasSuffix(s, suffix) THEN SubSeq(s, 1, Len(s) - Len(suffix)) ELSE s

\* bufio.dropCR: one trailing carriage return of a line removed.
DropCR(line) ==
    IF line # <<>> /\ line[Len(line)] = CR
    THEN SubSeq(line, 1, Len(line) - 1)
    ELSE line

\* Index of the first NL of s, 0 when there is none.
RECURSIVE IndexNL(_, _)
IndexNL(s, i) ==
    IF i > Len(s) THEN 0
    ELSE IF s[i] = NL THEN i
    ELSE IndexNL(s, i + 1)

\* bufio.ScanLines applied until EOF: the tokens scanner.Scan() yields.  Each
\* line loses its end-of-line marker (\n or \r\n); a final line without a
\* newline is a token too, an empty final line is not.
RECURSIVE ScanLines(_)
ScanLines(data) ==
    IF data = <<>> THEN <<>>
    ELSE LET i == IndexNL(data, 1) IN
         IF i = 0 THEN << DropCR(data) >>
         ELSE << DropCR(SubSeq(data, 1, i - 1)) >>
              \o ScanLines(SubSeq(data, i + 1, Len(data)))

\* The strings.Builder of readFile: every token followed by "\n".
RECURSIVE JoinLines(_)
JoinLines(lines) ==
    IF lines = <<>> THEN <<>>
    ELSE Head(lines) \o << NL >> \o JoinLines(Tail(lines))

\* What readFile returns for a file holding data.
ReadFileText(data) == TrimSuffix(JoinLines(ScanLines(data)), << NL >>)

(***************************************************************************)
(* The digest of hash mode.  crypto/sha256 is a streaming hash whose       *)
(* Sum is a fixed number of bytes; hex.EncodeToString renders every byte   *)
(* as two lower-case hexadecimal digits.  The compression function is      *)
(* replaced by a one-byte polynomial hash, which is injective on the       *)
(* outputs of the model.                                                   *)
(***************************************************************************)

CharCode(c) ==
    CASE c = "a" -> 97
      [] c = "b" -> 98
      [] c = SP  -> 32
      [] c = NL  -> 10
      [] c = CR  -> 13
      [] c = TAB -> 9
      [] OTHER   -> 0

\* hasher.Write for every byte the TeeReader passes on, from the initial
\* state h.
RECURSIVE HashWrite(_, _)
HashWrite(h, s) ==
    IF s = <<>> THEN h
    ELSE HashWrite((h * 31 + CharCode(Head(s))) % 256, Tail(s))

\* hasher.Sum(nil): the digest bytes of everything written.
HashSum(s) == << HashWrite(7, s) >>

HexTable ==
    << "0", "1", "2", "3", "4", "5", "6", "7",
       "8", "9", "a", "b", "c", "d", "e", "f" >>

\* hex.EncodeToString
RECURSIVE HexEncode(_)
HexEncode(bytes) ==
    IF bytes = <<>> THEN <<>>
    ELSE << HexTable[(Head(bytes) \div 16) + 1], HexTable[(Head(bytes) % 16) + 1] >>
         \o HexEncode(Tail(bytes))

(***************************************************************************)
(* Paths and files.                                                        *)
(***************************************************************************)
InSuffix == << ".", "i", "n" >>
OutExt == << ".", "o", "u", "t" >>
HashExt == << ".", "h", "a", "s", "h" >>

\* expectedExt, chosen once per run from -h.
ExpectedExt(hash) == IF hash THEN HashExt ELSE OutExt

\* Every trailing ".in" removed, not only one.
RECURSIVE StripAll(_, _)
StripAll(s, suffix) ==
    IF HasSuffix(s, suffix) THEN StripAll(TrimSuffix(s, suffix), suffix) ELSE s

\* The expected path with every trailing ".in" of the input path removed.
OutputFileStripAll(inputFile, hash) == StripAll(inputFile, InSuffix) \o ExpectedExt(hash)

\* outputFile := strings.TrimSuffix(inputFile, ".in") + expectedExt
OutputFile(inputFile, hash) == TrimSuffix(inputFile, InSuffix) \o ExpectedExt(hash)

\* The states of a path.  "missing": os.Stat reports that the file does not
\* exist.  "denied": os.Stat, os.Open and os.Create fail with another error
\* (a directory without search permission, a name that is too long).
\* "file": a regular file holding data.
Missing == [kind |-> "missing", data |-> <<>>]
Denied == [kind |-> "denied", data |-> <<>>]
File(data) == [kind |-> "file", data |-> data]

\* os.IsNotExist(err) for the err of os.Stat(path)
StatIsNotExist(f) == f.kind = "missing"

\* writeFile opening the file to append instead of truncating it.
WriteFileAppending(f, content) ==
    IF f.kind = "denied"
    THEN { [ok |-> FALSE, file |-> f] }
    ELSE { [ok |-> TRUE, file |-> File(f.data \o content)],
           [ok |-> FALSE, file |-> f] }

\* The outcomes of writeFile(filename, content) on a path in state f: os.Create
\* fails and leaves the path as it is; or it creates or truncates the file and
\* WriteString writes everything; or WriteString fails, and the file is left
\* as os.Create made it, empty.
WriteFileOutcomes(f, content) ==
    IF f.kind = "denied"
    THEN { [ok |-> FALSE, file |-> f] }
    ELSE { [ok |-> TRUE, file |-> File(content)],
           [ok |-> FALSE, file |-> f],
           [ok |-> FALSE, file |-> File(<<>>)] }

\* An open that creates the file when it is not there.
AfterOpenCreate(f) == IF f.kind = "missing" THEN File(<<>>) ELSE f

\* The state of a path after readFile: os.Open opens for reading only and
\* leaves the path as it is.
AfterOpen(f) == f

\* readFile taking a file that cannot be opened for an empty one.
ReadFileLenient(f) ==
    IF f.kind = "file"
    THEN { [ok |-> FALSE, text |-> <<>>], [ok |-> TRUE, text |-> ReadFileText(f.data)] }
    ELSE { [ok |-> TRUE, text |-> <<>>] }

\* The outcomes of readFile(filename) on a path in state f: os.Open or the
\* scanner fails, or the text is returned line-normalised.
ReadFileOutcomes(f) ==
    { [ok |-> FALSE, text |-> <<>>] }
    \cup (IF f.kind = "file"
          THEN { [ok |-> TRUE, text |-> ReadFileText(f.data)] }
          ELSE {})

(***************************************************************************)
(* The inputs of the model.                                                *)
(***************************************************************************)
PathA == << "a" >>
PathAIn == << "a", ".", "i", "n" >>
PathAInIn == << "a", ".", "i", "n", ".", "i", "n" >>

\* The lists filepath.Glob can return, in its (sorted) order: two test cases
\* ending in .in, one of them ending in it twice, and a pattern such as 'a*'
\* that also matches a file without the .in suffix.
InputLists == { << PathAIn, PathAInIn >>, << PathA, PathAIn >> }

\* What the target program can write to its standard output.
Outputs == { << "a", NL >>, << "b" >>, << "a", CR, NL, "b" >> }

\* The longest execution time, in ticks of the clock behind time.Since.
MaxDur == 1

AllInputs == { l[i] : l \in InputLists, i \in 1 .. 2 }
AllPaths == AllInputs \cup { OutputFile(p, h) : p \in AllInputs, h \in BOOLEAN }

\* The states in which a run can find an expected-output file.
ExpectedInit(hash) ==
    IF hash
    THEN { Missing, Denied, File(HexEncode(HashSum(<< "a", NL >>)) \o << NL >>) }
    ELSE { Missing, Denied, File(<< "a", NL >>), File(<< "a", CR, NL, "b" >>) }

NoText == <<>>

\* The expected-output paths of a list of input files.
ExpectedPaths(files, hash) == { OutputFile(files[i], hash) : i \in 1 .. Len(files) }

VARIABLES
    generate,            \* -g
    forceGen,            \* -f
    useHash,             \* -h
    inputFiles,          \* the result of filepath.Glob
    fs,                  \* the file system: path -> state of the path
    pc,                  \* where main and executeProgram stand
    idx,                 \* position of the for loop in inputFiles
    passedTests,
    generatedFiles,
    totalExecutionTime,
    verdicts,            \* what was printed for the files processed so far
    ctxErr,              \* ctx.Err(): "none" (no context), "nil", "deadline", "canceled"
    child,               \* "none", "running", "zombie" (exited, not waited on), "reaped"
    exitStatus,          \* "none", "ok", "fail", "killed"
    orphan,              \* a descendant of the child holds the stdout pipe being read
    watchErr,            \* the goroutine of CommandContext killed the process
    err,                 \* err of executeProgram: "nil" or the failed operation
    output,              \* output of executeProgram
    calls,               \* calls of executeProgram for the current file
    spawns,              \* child processes started for the current file
    expired,             \* the deadline passed while the child was running
    ret,                 \* what executeProgram returned
    last,                \* the line just reported, with what led to it
    prev,                \* the run before this one, if it was a generate run
    printed              \* the summary printed at the end of the run

cfgVars == << generate, forceGen, useHash, inputFiles >>
runVars == << idx, passedTests, generatedFiles, totalExecutionTime, verdicts >>
procVars == << child, exitStatus, orphan, watchErr >>
execVars == << ctxErr, err, output, calls, spawns, expired, ret >>
histVars == << last, prev, printed >>
vars == << cfgVars, fs, pc, runVars, procVars, execVars, histVars >>

NoRet == [err |-> "none", out |-> NoText, time |-> 0]
NoRead == [ok |-> FALSE, text |-> NoText]
NoLast ==
    [file |-> <<>>, v |-> "none", res |-> "none", out |-> NoText, time |-> 0,
     calls |-> 0, spawns |-> 0, child |-> "none", expired |-> FALSE,
     cause |-> "nil", before |-> Missing, read |-> NoRead, wrote |-> FALSE]
NoPrev == [ran |-> FALSE, generate |-> FALSE, forceGen |-> FALSE, verdicts |-> <<>>]
NoSummary ==
    [kind |-> "none", generated |-> 0, passed |-> 0, total |-> 0,
     allPassed |-> FALSE, failed |-> 0]

Init ==
    /\ generate \in BOOLEAN
    /\ forceGen \in BOOLEAN
    /\ useHash \in BOOLEAN
    /\ inputFiles \in InputLists
    /\ \E e \in [ExpectedPaths(inputFiles, useHash) -> ExpectedInit(useHash)] :
           fs = [p \in AllPaths |->
                    IF p \in DOMAIN e THEN e[p]
                    ELSE IF p \in AllInputs THEN File(<< "a" >>)
                    ELSE Missing]
    /\ pc = "loop"
    /\ idx = 1
    /\ passedTests = 0
    /\ generatedFiles = 0
    /\ totalExecutionTime = 0
    /\ verdicts = <<>>
    /\ ctxErr = "none"
    /\ child = "none"
    /\ exitStatus = "none"
    /\ orphan = FALSE
    /\ watchErr = FALSE
    /\ err = "nil"
    /\ output = NoText
    /\ calls = 0
    /\ spawns = 0
    /\ expired = FALSE
    /\ ret = NoRet
    /\ last = NoLast
    /\ prev = NoPrev
    /\ printed = NoSummary

(***************************************************************************)
(* main: the loop over the input files.                                    *)
(***************************************************************************)
inputFile == inputFiles[idx]
outputFile == OutputFile(inputFile, useHash)

\* One line of the report; the output is kept for a generated file only.
Verdict(v, r) ==
    [file |-> inputFile, v |-> v, out |-> IF v = "GEN" THEN r.out ELSE NoText]

\* The line just reported, with what the harness did for the file: the result
\* of executeProgram, the state of the child when it returned, the expected
\* file as os.Stat and readFile found it, what was read from it and whether
\* writeFile succeeded.
Report(v, r, rd, w) ==
    [file |-> inputFile, v |-> v, res |-> r.err, out |-> r.out, time |-> r.time,
     calls |-> calls, spawns |-> spawns, child |-> child, expired |-> expired,
     cause |-> err, before |-> fs[outputFile], read |-> rd, wrote |-> w]

\* The locals of executeProgram and the process handle go out of scope.
ResetExec ==
    /\ ctxErr' = "none"
    /\ child' = "none"
    /\ exitStatus' = "none"
    /\ orphan' = FALSE
    /\ watchErr' = FALSE
    /\ err' = "nil"
    /\ output' = NoText
    /\ calls' = 0
    /\ spawns' = 0
    /\ expired' = FALSE
    /\ ret' = NoRet

\* The condition of line 86 with the force flag inverted.
MustGenerateInverted(f, force) == StatIsNotExist(f) \/ ~force

\* The condition of line 86 under which the program is executed in generate
\* mode: os.IsNotExist(err) || *forceGen.
MustGenerate(f, force) == StatIsNotExist(f) \/ force

\* Lines 85-86, 106-109: generate mode, the expected file is there and -f is
\* not given: SKIP.
Skip ==
    /\ pc = "loop"
    /\ idx <= Len(inputFiles)
    /\ generate
    /\ ~MustGenerate(fs[outputFile], forceGen)
    /\ verdicts' = Append(verdicts, Verdict("SKIP", NoRet))
    /\ last' = Report("SKIP", NoRet, NoRead, FALSE)
    /\ passedTests' = passedTests + 1
    /\ idx' = idx + 1
    /\ UNCHANGED << cfgVars, fs, pc, generatedFiles, totalExecutionTime,
                    procVars, execVars, prev, printed >>

\* Lines 87 and 111: executeProgram is called.
CallExecute ==
    /\ pc = "loop"
    /\ idx <= Len(inputFiles)
    /\ generate => MustGenerate(fs[outputFile], forceGen)
    /\ pc' = "exec"
    /\ calls' = calls + 1
    /\ last' = NoLast
    /\ UNCHANGED << cfgVars, fs, runVars, procVars, ctxErr, err, output, spawns,
                    expired, ret, prev, printed >>

(***************************************************************************)
(* executeProgram                                                          *)
(***************************************************************************)
\* Lines 183-193: the input file is read; on failure the call returns at once
\* with a zero duration.  Otherwise the context and its timer are created.
ExecReadInput ==
    /\ pc = "exec"
    /\ \E r \in ReadFileOutcomes(fs[inputFile]) :
          IF r.ok
          THEN /\ ctxErr' = "nil"
               /\ pc' = IF useHash THEN "hash_pipe" ELSE "text_start"
               /\ err' = err
               /\ ret' = ret
          ELSE /\ ctxErr' = ctxErr
               /\ pc' = "ret"
               /\ err' = "input"
               /\ ret' = [err |-> "exec", out |-> NoText, time |-> 0]
    /\ fs' = [fs EXCEPT ![inputFile] = AfterOpen(@)]
    /\ UNCHANGED << cfgVars, runVars, procVars, output, calls, spawns,
                    expired, histVars >>

\* cmd.Start: it fails when the context is already done ("start_ctx") or the
\* process cannot be started ("spawn"); otherwise the child runs.
StartOutcomes == IF ctxErr = "nil" THEN { "ok", "spawn" } ELSE { "start_ctx" }

Started ==
    /\ child' = "running"
    /\ exitStatus' = "none"
    /\ orphan' = FALSE
    /\ watchErr' = FALSE
    /\ spawns' = spawns + 1

\* Line 215, first half: cmd.Output starts the command.
TextStart ==
    /\ pc = "text_start"
    /\ \E o \in StartOutcomes :
          IF o = "ok"
          THEN /\ Started
               /\ pc' = "text_wait"
               /\ err' = err
          ELSE /\ pc' = "errHandle"
               /\ err' = o
               /\ UNCHANGED << procVars, spawns >>
    /\ UNCHANGED << cfgVars, fs, runVars, ctxErr, output, calls, expired, ret, histVars >>

\* The error of cmd.Wait once the process has been waited on: an ExitError
\* for a non-zero status ("exit") or a signal ("killed"), else the context's
\* error if the goroutine of CommandContext killed the process.
WaitErr(status, killed) ==
    IF status = "fail" THEN "exit"
    ELSE IF status = "killed" THEN "killed"
    ELSE IF killed THEN "ctx"
    ELSE "nil"

\* os.Process.Wait has returned: the process is gone, its status consumed.
Reaped ==
    /\ child' = "reaped"
    /\ exitStatus' = "none"
    /\ watchErr' = FALSE

\* Line 215, cmd.Output in cmd.Wait: the child has exited and is waited on.
TextWait ==
    /\ pc = "text_wait"
    /\ child = "zombie"
    /\ Reaped
    /\ err' = WaitErr(exitStatus, watchErr)
    /\ pc' = "text_copy"
    /\ UNCHANGED << cfgVars, fs, runVars, orphan, ctxErr, output, calls, spawns,
                    expired, ret, histVars >>

\* The write end of the stdout pipe the harness reads is open: the child
\* runs, or a descendant of it holds the pipe.
PipeOpen == child = "running" \/ orphan

\* Line 215, the end of cmd.Wait: it waits for the goroutine that copies the
\* pipe into the buffer, which ends at EOF or with a read error; that error
\* is returned if there is no other.
TextCopyStep(copyErr) ==
    /\ pc = "text_copy"
    /\ copyErr \/ ~PipeOpen
    /\ \E o \in Outputs : output' = o
    /\ err' = IF err = "nil" /\ copyErr THEN "copy" ELSE err
    /\ orphan' = FALSE
    /\ pc' = "errHandle"
    /\ UNCHANGED << cfgVars, fs, runVars, child, exitStatus, watchErr, ctxErr,
                    calls, spawns, expired, ret, histVars >>

TextCopy == \E copyErr \in BOOLEAN : TextCopyStep(copyErr)

\* Lines 199-202: cmd.StdoutPipe
HashPipe ==
    /\ pc = "hash_pipe"
    /\ \E ok \in BOOLEAN :
          IF ok
          THEN pc' = "hash_start" /\ err' = err
          ELSE pc' = "errHandle" /\ err' = "pipe"
    /\ UNCHANGED << cfgVars, fs, runVars, procVars, ctxErr, output, calls, spawns,
                    expired, ret, histVars >>

\* Lines 203-206: cmd.Start
HashStart ==
    /\ pc = "hash_start"
    /\ \E o \in StartOutcomes :
          IF o = "ok"
          THEN /\ Started
               /\ pc' = "hash_copy"
               /\ err' = err
          ELSE /\ pc' = "errHandle"
               /\ err' = o
               /\ UNCHANGED << procVars, spawns >>
    /\ UNCHANGED << cfgVars, fs, runVars, ctxErr, output, calls, expired, ret, histVars >>

\* A retry: the command is started again when the copy fails.
AfterCopyRetry(copyErr) == IF copyErr THEN "hash_start" ELSE "hash_wait"

\* Where executeProgram goes after io.Copy (line 210): to cmd.Wait if the
\* copy ended without error, else straight to errHandle.
AfterCopy(copyErr) == IF copyErr THEN "errHandle" ELSE "hash_wait"

\* Lines 208-210: io.Copy reads the pipe through the hasher until EOF or a
\* read error.
HashCopyStep(copyErr) ==
    /\ pc = "hash_copy"
    /\ copyErr \/ ~PipeOpen
    /\ \E o \in Outputs : output' = IF copyErr THEN output ELSE o
    /\ err' = IF copyErr THEN "copy" ELSE "nil"
    /\ orphan' = FALSE
    /\ pc' = AfterCopy(copyErr)
    /\ UNCHANGED << cfgVars, fs, runVars, child, exitStatus, watchErr, ctxErr,
                    calls, spawns, expired, ret, histVars >>

HashCopy == \E copyErr \in BOOLEAN : HashCopyStep(copyErr)

\* Lines 211-212: cmd.Wait, then the digest of what was read, in hexadecimal.
HashWait ==
    /\ pc = "hash_wait"
    /\ child = "zombie"
    /\ Reaped
    /\ err' = WaitErr(exitStatus, watchErr)
    /\ output' = HexEncode(HashSum(output))
    /\ pc' = "errHandle"
    /\ UNCHANGED << cfgVars, fs, runVars, orphan, ctxErr, calls, spawns, expired,
                    ret, histVars >>

\* Lines 220-228: the classification of the outcome.
Classify(e, ctx, out, t) ==
    IF e # "nil"
    THEN IF ctx = "deadline"
         THEN [err |-> "timeout", out |-> NoText, time |-> t]
         ELSE [err |-> "exec", out |-> NoText, time |-> t]
    ELSE [err |-> "nil", out |-> out, time |-> t]

\* Lines 218-228 and the deferred cancel of line 188.
ErrHandle ==
    /\ pc = "errHandle"
    /\ \E t \in 0 .. MaxDur : ret' = Classify(err, ctxErr, output, t)
    /\ ctxErr' = IF ctxErr = "nil" THEN "canceled" ELSE ctxErr
    /\ pc' = "ret"
    /\ UNCHANGED << cfgVars, fs, runVars, procVars, err, output, calls, spawns,
                    expired, histVars >>

(***************************************************************************)
(* What runs beside executeProgram: the timer of context.WithTimeout, the  *)
(* goroutine exec.CommandContext starts to kill the process when the       *)
(* context is done, and the target program.                                *)
(***************************************************************************)
\* Line 187: the timer of the context fires.
DeadlineFire ==
    /\ ctxErr = "nil"
    /\ ctxErr' = "deadline"
    /\ expired' = (expired \/ child = "running")
    /\ UNCHANGED << cfgVars, fs, pc, runVars, procVars, err, output, calls,
                    spawns, ret, histVars >>

\* Line 190: the context is done and the process has not been waited on:
\* os.Process.Kill.  A running child dies of the signal; a child that has
\* exited already keeps its status, and Wait reports the context's error.
ContextKill ==
    /\ ctxErr \in { "deadline", "canceled" }
    /\ child = "running" \/ (child = "zombie" /\ ~watchErr)
    /\ watchErr' = TRUE
    /\ IF child = "running"
       THEN /\ child' = "zombie"
            /\ exitStatus' = "killed"
            /\ \E held \in BOOLEAN : orphan' = held
       ELSE UNCHANGED << child, exitStatus, orphan >>
    /\ UNCHANGED << cfgVars, fs, pc, runVars, execVars, histVars >>

\* The target program exits by itself, with status 0 or not.  Its end of the
\* stdout pipe is closed; a process it started may still hold the pipe.
ChildExit ==
    /\ child = "running"
    /\ child' = "zombie"
    /\ \E st \in { "ok", "fail" } : exitStatus' = st
    /\ \E held \in BOOLEAN : orphan' = held
    /\ UNCHANGED << cfgVars, fs, pc, runVars, watchErr, execVars, histVars >>

\* The last descendant holding the stdout pipe closes it or exits.
OrphanExit ==
    /\ orphan
    /\ orphan' = FALSE
    /\ UNCHANGED << cfgVars, fs, pc, runVars, child, exitStatus, watchErr,
                    execVars, histVars >>

(***************************************************************************)
(* main: after executeProgram has returned.                                *)
(***************************************************************************)
\* An accumulation that leaves out the executions that failed.
AddTimeOnSuccess(total, r) == IF r.err = "nil" THEN total + r.time ELSE total

\* Lines 88 and 112: totalExecutionTime += executionTime
AddTime(total, r) == total + r.time

\* The verdict of lines 91-96 and 115-120 for a failed execution.
FailureVerdict(r) == IF r.err = "timeout" THEN "TLE" ELSE "ERR"

\* A comparison that forgets strings.TrimSpace.
OutputsMatchExact(actualOutput, expectedOutput) == actualOutput = expectedOutput

\* The comparison of line 132.
OutputsMatch(actualOutput, expectedOutput) ==
    TrimSpace(actualOutput) = TrimSpace(expectedOutput)

NextFile ==
    /\ idx' = idx + 1
    /\ pc' = "loop"
    /\ ResetExec

\* A line of the report is printed for the file executeProgram was called for.
Reported(v, rd, w) ==
    /\ verdicts' = Append(verdicts, Verdict(v, ret))
    /\ last' = Report(v, ret, rd, w)

\* Lines 88-105: generate mode.
MainGenerate ==
    /\ pc = "ret"
    /\ generate
    /\ totalExecutionTime' = AddTime(totalExecutionTime, ret)
    /\ IF ret.err # "nil"
       THEN /\ Reported(FailureVerdict(ret), NoRead, FALSE)
            /\ UNCHANGED << fs, generatedFiles >>
       ELSE \E w \in WriteFileOutcomes(fs[outputFile], ret.out) :
               /\ fs' = [fs EXCEPT ![outputFile] = w.file]
               /\ IF w.ok
                  THEN /\ Reported("GEN", NoRead, TRUE)
                       /\ generatedFiles' = generatedFiles + 1
                  ELSE /\ Reported("ERR", NoRead, FALSE)
                       /\ generatedFiles' = generatedFiles
    /\ NextFile
    /\ UNCHANGED << cfgVars, passedTests, prev, printed >>

\* Lines 112-157: check mode.
MainCheck ==
    /\ pc = "ret"
    /\ ~generate
    /\ totalExecutionTime' = AddTime(totalExecutionTime, ret)
    /\ IF ret.err # "nil"
       THEN /\ Reported(FailureVerdict(ret), NoRead, FALSE)
            /\ passedTests' = passedTests
            /\ fs' = fs
       ELSE \E e \in ReadFileOutcomes(fs[outputFile]) :
               /\ fs' = [fs EXCEPT ![outputFile] = AfterOpen(@)]
               /\ IF ~e.ok
                  THEN /\ Reported("ERR", e, FALSE)
                       /\ passedTests' = passedTests
                  ELSE IF OutputsMatch(ret.out, e.text)
                  THEN /\ Reported("AC", e, FALSE)
                       /\ passedTests' = passedTests + 1
                  ELSE /\ Reported("WA", e, FALSE)
                       /\ passedTests' = passedTests
    /\ NextFile
    /\ UNCHANGED << cfgVars, generatedFiles, prev, printed >>

\* Line 159: the loop is over.
LoopEnd ==
    /\ pc = "loop"
    /\ idx > Len(inputFiles)
    /\ pc' = "summary"
    /\ last' = NoLast
    /\ UNCHANGED << cfgVars, fs, runVars, procVars, execVars, prev, printed >>

\* A condition that takes one passed test for all of them.
AllPassedSome(passed, total) == passed > 0

\* The condition of line 173: passedTests == totalTests.
AllPassed(passed, total) == passed = total

\* Lines 163-165: the summary of a generate run.
GenerateSummary ==
    [kind |-> "generated", generated |-> generatedFiles, passed |-> passedTests,
     total |-> Len(inputFiles), allPassed |-> FALSE, failed |-> 0]

\* Lines 167-177: the summary of a check run.
CheckSummary ==
    [kind |-> "results", generated |-> 0, passed |-> passedTests,
     total |-> Len(inputFiles),
     allPassed |-> AllPassed(passedTests, Len(inputFiles)),
     failed |-> IF AllPassed(passedTests, Len(inputFiles))
                THEN 0 ELSE Len(inputFiles) - passedTests]

\* Lines 161-178: the summary is printed and main returns.
Summary ==
    /\ pc = "summary"
    /\ pc' = "done"
    /\ printed' = IF generate THEN GenerateSummary ELSE CheckSummary
    /\ UNCHANGED << cfgVars, fs, runVars, procVars, execVars, last, prev >>

\* Lines 30-76: the harness is started again on the same files, in the same
\* capture mode, with -g and -f as the user likes.
NewRun ==
    /\ pc = "done"
    /\ generate' \in BOOLEAN
    /\ forceGen' \in BOOLEAN
    /\ prev' = IF generate
               THEN [ran |-> TRUE, generate |-> TRUE, forceGen |-> forceGen,
                     verdicts |-> verdicts]
               ELSE NoPrev
    /\ last' = NoLast
    /\ printed' = NoSummary
    /\ pc' = "loop"
    /\ idx' = 1
    /\ passedTests' = 0
    /\ generatedFiles' = 0
    /\ totalExecutionTime' = 0
    /\ verdicts' = <<>>
    /\ UNCHANGED << useHash, inputFiles, fs, procVars, execVars >>

Next ==
    \/ Skip
    \/ CallExecute
    \/ ExecReadInput
    \/ TextStart
    \/ TextWait
    \/ TextCopy
    \/ HashPipe
    \/ HashStart
    \/ HashCopy
    \/ HashWait
    \/ ErrHandle
    \/ MainGenerate
    \/ MainCheck
    \/ LoopEnd
    \/ Summary
    \/ DeadlineFire
    \/ ContextKill
    \/ ChildExit
    \/ OrphanExit

Spec == Init /\ [][Next]_vars

\* Runs one after another on the same file system.
NextRuns ==
    \/ Next
    \/ NewRun

RunsSpec == Init /\ [][NextRuns]_vars

\* What the Go scheduler guarantees: a goroutine that can run does run.  The
\* steps of main and executeProgram go on when they are not blocked, the timer
\* fires, the goroutine of CommandContext kills the process.  The target
\* program and its descendants owe nothing: they may run for ever, and no
\* read error has to happen.
Progress ==
    /\ WF_vars(Skip)
    /\ WF_vars(CallExecute)
    /\ WF_vars(ExecReadInput)
    /\ WF_vars(TextStart)
    /\ WF_vars(TextWait)
    /\ WF_vars(TextCopyStep(FALSE))
    /\ WF_vars(HashPipe)
    /\ WF_vars(HashStart)
    /\ WF_vars(HashCopyStep(FALSE))
    /\ WF_vars(HashWait)
    /\ WF_vars(ErrHandle)
    /\ WF_vars(MainGenerate)
    /\ WF_vars(MainCheck)
    /\ WF_vars(LoopEnd)
    /\ WF_vars(Summary)
    /\ WF_vars(DeadlineFire)
    /\ WF_vars(ContextKill)

FairSpec == Spec /\ Progress

(***************************************************************************)
(* Properties.                                                             *)
(***************************************************************************)
\* The number of files of this run reported with verdict v.
Count(v) == Cardinality({ k \in 1 .. Len(verdicts) : verdicts[k].v = v })

\* A line has just been reported.
JustReported == last.v # "none"

C2_ExpiredIsTLE ==
    (JustReported /\ last.expired) => (last.res = "timeout" /\ last.v = "TLE")

\* C3: an execution that failed for a reason other than the deadline (the
\* child exited with a non-zero status before the deadline passed, the process
\* could not be started, the pipe could not be made, a stream failed) returns
\* an execution error and is reported ERR.
C3_FailureIsERR ==
    (JustReported /\ last.cause \in { "exit", "spawn", "pipe", "copy", "input" }
        /\ ~last.expired)
        => (last.res = "exec" /\ last.v = "ERR")

\* C4: when executeProgram returns, the child it started, if any, has
\* terminated and has been waited on.
C4_ChildReaped == pc = "ret" => child \in { "none", "reaped" }

\* C5: executeProgram always returns in the end.
C5_Returns == (pc = "exec") ~> (pc = "ret")

\* This run and the one before it are generate runs without -f.
SecondPlainGenerate == prev.ran /\ ~prev.forceGen /\ generate /\ ~forceGen

\* The expected-output path of the k-th input file.
ExpectedOf(k) == OutputFile(inputFiles[k], useHash)

\* C6 as stated: in a generate run without -f that follows a generate run
\* without -f, every file is reported SKIP and its expected file is left as
\* it was.
C6_SecondRunSkipsAll ==
    (SecondPlainGenerate /\ JustReported) =>
        (last.v = "SKIP" /\ fs[OutputFile(last.file, useHash)] = last.before)

\* C6 amended: in a generate run without -f that follows a generate run
\* without -f, every file the first run reported GEN or SKIP is reported SKIP
\* without a call of executeProgram, and no step of the run changes the
\* expected file of such a file.
C6_Idempotent ==
    /\ [](SecondPlainGenerate =>
            /\ \A k \in 1 .. Len(verdicts) :
                  prev.verdicts[k].v \in { "GEN", "SKIP" } => verdicts[k].v = "SKIP"
            /\ (JustReported /\ last.v = "SKIP") => last.calls = 0)
    /\ [][SecondPlainGenerate =>
            \A k \in 1 .. Len(inputFiles) :
                prev.verdicts[k].v \in { "GEN", "SKIP" }
                    => fs'[ExpectedOf(k)] = fs[ExpectedOf(k)]]_vars

\* C6 witness: a file generated by the first run is skipped by the second.
C6_Witness ==
    /\ SecondPlainGenerate
    /\ last.v = "SKIP"
    /\ prev.verdicts[Len(verdicts)].v = "GEN"

\* The file just reported in a check run in hash mode was generated by the
\* run before, the program wrote the same output again (the digests are
\* equal), and the .hash file was read.
HashRoundTripCase ==
    /\ useHash
    /\ ~generate
    /\ prev.ran
    /\ JustReported
    /\ last.res = "nil"
    /\ last.read.ok
    /\ prev.verdicts[Len(verdicts)].v = "GEN"
    /\ prev.verdicts[Len(verdicts)].out = last.out

\* No file processed after the k-th resolves to the same expected path.
NoLaterSamePath(k) ==
    \A j \in (k + 1) .. Len(inputFiles) : ExpectedOf(j) # ExpectedOf(k)

\* C7: in hash mode, a file reported GEN by a generate run is
\* reported AC by the check run that follows, when the program writes the
\* same output.
C7_HashRoundTrip == HashRoundTripCase => last.v = "AC"

\* The round trip of a file whose .hash path no later file of the list
\* shares.  It holds: the round trip fails through shared paths only.
C7_HashRoundTripOwnPath ==
    (HashRoundTripCase /\ NoLaterSamePath(Len(verdicts))) => last.v = "AC"

\* A round trip that ends in AC.
HashRoundTripAccepted ==
    /\ HashRoundTripCase
    /\ NoLaterSamePath(Len(verdicts))
    /\ last.v = "AC"
    /\ Len(last.out) = 2

\* C8: in generate mode the verdict is SKIP exactly when the expected file
\* exists and -f is not given; for a skipped file executeProgram is not
\* called, the expected file is left as it was, and the count of files that
\* already exist is the number of SKIP verdicts.
C8_SkipIffExists ==
    generate =>
        /\ passedTests = Count("SKIP")
        /\ JustReported =>
              /\ (last.v = "SKIP") <=> (last.before.kind = "file" /\ ~forceGen)
              /\ last.v = "SKIP" =>
                    /\ last.calls = 0
                    /\ last.spawns = 0
                    /\ fs[OutputFile(last.file, useHash)] = last.before

Verdicts == { "AC", "WA", "TLE", "ERR", "GEN", "SKIP" }

\* The files are reported in the order of inputFiles, one verdict each, and
\* executeProgram runs for a file only when all files before it are reported.
C9_InOrder ==
    /\ idx = Len(verdicts) + 1
    /\ Len(verdicts) <= Len(inputFiles)
    /\ \A k \in 1 .. Len(verdicts) :
          verdicts[k].file = inputFiles[k] /\ verdicts[k].v \in Verdicts
    /\ pc \in { "summary", "done" } => Len(verdicts) = Len(inputFiles)

\* C9: every file is reported, in order, with one verdict, whatever the
\* verdicts before it, and the run reaches its summary.
C9_RunCompletes == []C9_InOrder /\ <>(pc = "done")

\* C10 as stated: executeProgram is called once for every file, and every
\* call starts one child process.
C10_ExactlyOnce == JustReported => (last.calls = 1 /\ last.spawns = 1)

\* The execution ended before a child process was started.
NotStarted(r) == r.cause \in { "input", "pipe", "spawn", "start_ctx" }

\* C10 amended: executeProgram is called once for every file that is not
\* skipped and never for a skipped one; a call starts one child process,
\* unless the input file cannot be read, the pipe cannot be made or cmd.Start
\* fails, and then none; nothing is tried twice.
C10_AtMostOnce ==
    /\ calls <= 1
    /\ spawns <= calls
    /\ JustReported =>
          /\ last.calls = IF last.v = "SKIP" THEN 0 ELSE 1
          /\ last.spawns = IF last.v = "SKIP" \/ NotStarted(last) THEN 0 ELSE 1

\* C10 witness: a file reported after one call that started one child.
C10_Witness == last.v = "WA" /\ last.calls = 1 /\ last.spawns = 1

\* The expected-output path of the file just reported.
LastPath == OutputFile(last.file, useHash)

\* C11: after a generation that ended in GEN the expected file holds the
\* output that generation returned; after a generation that ended in TLE or
\* ERR (from the execution or from the write) the expected file is as it was
\* before.
C11_FileIsLastGenerated ==
    (generate /\ JustReported /\ last.v # "SKIP") =>
        IF last.v = "GEN"
        THEN fs[LastPath] = File(last.out)
        ELSE fs[LastPath] = last.before

\* What executeProgram can return as output in the capture mode of the run.
Returned ==
    IF useHash THEN { HexEncode(HashSum(o)) : o \in Outputs } ELSE Outputs

\* C12: in generate mode a file that is not skipped is reported GEN exactly
\* when its execution succeeded and the write succeeded, and the expected file
\* then holds the returned output (the digest in hash mode, the captured text
\* as it is in text mode); after a timeout or an execution error nothing is
\* written; GEN lines and SKIP lines are counted apart, a failure in neither.
C12_GenIffWritten ==
    generate =>
        /\ generatedFiles = Count("GEN")
        /\ passedTests = Count("SKIP")
        /\ (JustReported /\ last.v # "SKIP") =>
              /\ (last.v = "GEN") <=> (last.res = "nil" /\ last.wrote)
              /\ last.v = "GEN" =>
                    (last.out \in Returned /\ fs[LastPath] = File(last.out))
              /\ last.res # "nil" =>
                    /\ last.v \in { "TLE", "ERR" }
                    /\ ~last.wrote
                    /\ fs[LastPath] = last.before

\* C12 witness: with -f, an existing .hash file is replaced by the digest.
C12_Witness ==
    /\ generate
    /\ useHash
    /\ last.v = "GEN"
    /\ last.before.kind = "file"
    /\ fs[LastPath] # last.before
    /\ generatedFiles = 1

\* C13: in check mode, a file whose execution succeeded and whose expected
\* file is missing or cannot be read is reported ERR, not AC or WA; a file
\* whose execution timed out or failed is reported TLE or ERR without the
\* expected file being read; neither is counted as passed, and the loop goes
\* on to the next file.
C13_UnreadableIsERR ==
    ~generate =>
        /\ passedTests = Count("AC")
        /\ JustReported =>
              /\ pc = "loop"
              /\ idx = Len(verdicts) + 1
              /\ (last.res = "nil" /\ last.before.kind # "file") => ~last.read.ok
              /\ (last.res = "nil" /\ ~last.read.ok) => last.v = "ERR"
              /\ last.res # "nil" =>
                    /\ last.v = IF last.res = "timeout" THEN "TLE" ELSE "ERR"
                    /\ last.read = NoRead

\* C13 witness: the first file has no expected file and is reported ERR after
\* a successful execution; nothing is counted and the second file is next.
C13_Witness ==
    /\ ~generate
    /\ last.v = "ERR"
    /\ last.res = "nil"
    /\ last.before.kind = "missing"
    /\ passedTests = 0
    /\ idx = 2

\* C14 as stated: at the end of a run the passed count is the number of AC
\* lines in check mode and the number of GEN and SKIP lines in generate mode.
C14_PassedCount ==
    pc = "done" =>
        passedTests = IF generate
                      THEN Count("GEN") + Count("SKIP")
                      ELSE Count("AC")

\* C14 amended: the passed count is the number of AC lines in check mode and
\* the number of SKIP lines in generate mode, where the GEN lines are counted
\* by the generated count; at the end every input file has its line; and the
\* cumulative time grows by the elapsed time of every execution that returns,
\* failed or not, and by nothing else.
C14_Counters ==
    /\ [](/\ passedTests = IF generate THEN Count("SKIP") ELSE Count("AC")
          /\ generatedFiles = IF generate THEN Count("GEN") ELSE 0
          /\ pc = "done" =>
                /\ Len(verdicts) = Len(inputFiles)
                /\ printed.total = Len(inputFiles)
                /\ printed.passed = passedTests)
    /\ [][totalExecutionTime' =
            totalExecutionTime
                + (IF pc = "ret" /\ pc' = "loop" THEN ret.time ELSE 0)]_vars

\* C14 witness: a check run in which a time-out and an accepted test have
\* both added their elapsed time.
C14_Witness ==
    /\ pc = "done"
    /\ ~generate
    /\ Count("TLE") = 1
    /\ Count("AC") = 1
    /\ passedTests = 1
    /\ totalExecutionTime = 2

\* The number of files of this run that did not pass.
Failures == Count("WA") + Count("TLE") + Count("ERR")

\* C15 as stated: at the end of every run the summary says whether all tests
\* passed: all passed exactly when no file was reported WA, TLE or ERR, and
\* otherwise the number of failures, total minus passed.
C15_StatesAllPassed ==
    pc = "done" =>
        /\ printed.kind = "results"
        /\ printed.allPassed <=> (Failures = 0)
        /\ ~printed.allPassed => printed.failed = printed.total - printed.passed

\* C15 amended: the summary of a check run says so; the summary of a
\* generate run gives the number of files generated and the number that
\* already exist, and says nothing about all tests having passed.
C15_CheckStatesAllPassed ==
    pc = "done" =>
        IF generate
        THEN /\ printed.kind = "generated"
             /\ printed.generated = Count("GEN")
             /\ printed.passed = Count("SKIP")
             /\ printed.total = Len(inputFiles)
        ELSE /\ printed.kind = "results"
             /\ printed.allPassed <=> (Failures = 0)
             /\ ~printed.allPassed =>
                   (printed.failed = Failures
                    /\ printed.failed = printed.total - printed.passed)

\* C15 witness: a check run of two files with one failure reported.
C15_Witness ==
    /\ pc = "done"
    /\ ~generate
    /\ ~printed.allPassed
    /\ printed.failed = 1
    /\ printed.total = 2

\* The expected path of input path f, spelled out: one trailing ".in" cut off
\* if there is one, then ".out" or ".hash".
ExpectedPathOf(f) ==
    (IF Len(f) >= 3 /\ SubSeq(f, Len(f) - 2, Len(f)) = << ".", "i", "n" >>
     THEN SubSeq(f, 1, Len(f) - 3)
     ELSE f)
    \o (IF useHash THEN << ".", "h", "a", "s", "h" >> ELSE << ".", "o", "u", "t" >>)

\* C16: the expected path of an input path is the path without its one
\* trailing ".in", if it has one, followed by ".out" or ".hash"; it is that
\* path whose existence decides between SKIP and execution, that path alone
\* which generate mode writes, and that path which check mode reads.
C16_OnePath ==
    /\ [](JustReported =>
            LET p == ExpectedPathOf(last.file) IN
            /\ p \in DOMAIN fs
            /\ (generate /\ last.v = "SKIP") => fs[p].kind # "missing"
            /\ (generate /\ last.v = "GEN") => fs[p] = File(last.out)
            /\ (~generate /\ last.read.ok) =>
                  /\ fs[p].kind = "file"
                  /\ last.read.text = ReadFileText(fs[p].data))
    /\ [][/\ \A p \in DOMAIN fs :
                fs'[p] # fs[p] => p = ExpectedPathOf(inputFiles[idx])
          /\ (generate /\ ~forceGen /\ pc = "loop" /\ pc' = "exec") =>
                /\ ExpectedPathOf(inputFiles[idx]) \in DOMAIN fs
                /\ fs[ExpectedPathOf(inputFiles[idx])].kind = "missing"]_vars

\* C16 witness: the file a.in.in has been generated into a.in.out.
C16_Witness ==
    /\ generate
    /\ ~useHash
    /\ last.file = PathAInIn
    /\ last.v = "GEN"
    /\ fs[<< "a", ".", "i", "n", ".", "o", "u", "t" >>] = File(last.out)

\* The file just reported in a check run in text mode was generated by the
\* run before, the program wrote the same output again, the .out file was
\* read, and no later file of the list shares its expected path.
TextRoundTripCase ==
    /\ ~useHash
    /\ ~generate
    /\ prev.ran
    /\ JustReported
    /\ last.res = "nil"
    /\ last.read.ok
    /\ prev.verdicts[Len(verdicts)].v = "GEN"
    /\ prev.verdicts[Len(verdicts)].out = last.out
    /\ NoLaterSamePath(Len(verdicts))

\* C17: in text mode, a file reported GEN by a generate run is reported AC by
\* the check run that follows, when the program writes the same output,
\* whatever that output is.
C17_TextRoundTrip == TextRoundTripCase => last.v = "AC"

\* C18: no step of a check run creates, truncates or changes a file, whatever
\* the verdicts and whatever -f says.
C18_CheckWritesNothing == [][~generate => fs' = fs]_vars

\* C18 witness: a check run with -f has ended with an ERR for a missing
\* expected file, and the file is still missing.
C18_Witness ==
    /\ ~generate
    /\ forceGen
    /\ pc = "done"
    /\ Count("ERR") >= 1
    /\ fs[ExpectedOf(1)].kind = "missing"
    /\ fs[ExpectedOf(2)].kind = "file"

\* The expected file of every file this run has reported GEN still holds the
\* output generated for it.
GeneratedKept ==
    \A k \in 1 .. Len(verdicts) :
        verdicts[k].v = "GEN" => fs[ExpectedOf(k)] = File(verdicts[k].out)

\* C19: the input files of a run have expected paths that differ from one
\* another, and so in generate mode the expected file written for a file is
\* not overwritten for another file of the same run.
C19_OwnExpectedFile ==
    (generate /\ JustReported) =>
        /\ \A i, j \in 1 .. Len(inputFiles) :
              i # j => ExpectedOf(i) # ExpectedOf(j)
        /\ GeneratedKept

====
